---------------------------- MODULE Spec2Model ----------------------------
(***************************************************************************)
(* Canvas quiz action-log exporter.                                        *)
(*                                                                         *)
(*   src/checker.py    the sequential pipeline  (variant "seq")            *)
(*   src/optimized.py  the thread-pool pipeline (variant "opt")            *)
(*   src/sana.py       a per-submission summarising worker                 *)
(*                                                                         *)
(* The remote API is the environment: the response to every HTTP request   *)
(* is drawn when the request is issued, from the bounded sets below.       *)
(*                                                                         *)
(* Python values.  A list is a sequence; a dict is a record whose missing  *)
(* keys hold the marker Absent; a value that may be None is a record       *)
(* [none, list] (see None / Some).                                         *)
(***************************************************************************)
EXTENDS Integers, Sequences, FiniteSets, TLC

VARIABLES
    variant,      \* "seq" (checker.py), "opt" (optimized.py), or a harness name
    pc,           \* position of __main__
    students,     \* all_students_info / students: result of the enrollment fetch
    si,           \* seq: index of the student the for loop is at
    subs,         \* seq: all_student_submissions of the current student
    sj,           \* seq: index of the submission the inner for loop is at
    all_events,   \* all_consolidated_events / all_events: the global collection
    csv,          \* the CSV file: NoFile, or the rows written
    task,         \* opt: per submitted future, the state of its worker task
    call,         \* the paginated fetch in progress (checker.py while loop)
    issued,       \* kinds of request issued so far in this run
    hist,         \* history: outcome of every submissions / events fetch
    enroll_failure, \* history: the response that failed the enrollment fetch
    fin,          \* input of a pure-function harness
    fout          \* output of a pure-function harness

vars == <<variant, pc, students, si, subs, sj, all_events, csv, task, call,
          issued, hist, enroll_failure, fin, fout>>

----------------------------------------------------------------------------
(* Bounds of the model *)

MaxPages    == 3    \* non-empty pages the API serves for one paginated fetch
MaxStudents == 2    \* student enrollments the API serves in one run
MaxSubs     == 2    \* submissions the API serves for one student
MaxEvents   == 2    \* events the API serves for one submission in a run
MaxSeqLen   == 3    \* length of the inputs of the pure-function harnesses

(* Program constants *)

PoolSize == 5       \* ThreadPoolExecutor(max_workers=5)
PerPage  == 100     \* 'per_page': 100

----------------------------------------------------------------------------
(* Python values *)

Absent == "<absent>"      \* a key the dict does not hold
None   == [none |-> TRUE,  list |-> <<>>]
Some(l) == [none |-> FALSE, list |-> l]
Truthy(v) == ~v.none /\ v.list # <<>>       \* `if v:` for a list-or-None

Range(s) == {s[i] : i \in DOMAIN s}

SeqsUpTo(S, n) == UNION {[1..k -> S] : k \in 0..n}

RECURSIVE Concat(_)
Concat(ss) == IF ss = <<>> THEN <<>> ELSE Head(ss) \o Concat(Tail(ss))

RECURSIVE JoinStr(_)
JoinStr(cs) == IF cs = <<>> THEN "" ELSE Head(cs) \o JoinStr(Tail(cs))

----------------------------------------------------------------------------
(* created_at values.                                                      *)
(*   Iso(h, m, off)  the string "2024-03-01THH:MM:00Z" when off = 0 and    *)
(*                   "2024-03-01THH:MM:00+0k:00" when off = k in 1..9      *)
(*   TextTs          the string "not-a-date"                               *)
(*   EmptyTs         the string ""                                         *)
(*   AbsentTs        the event has no created_at key                       *)
(*   NullTs          created_at is JSON null (Python None)                 *)

Iso(h, m, off) == [k |-> "iso", h |-> h, m |-> m, off |-> off]
TextTs   == [k |-> "text",   h |-> 0, m |-> 0, off |-> 0]
EmptyTs  == [k |-> "empty",  h |-> 0, m |-> 0, off |-> 0]
AbsentTs == [k |-> "absent", h |-> 0, m |-> 0, off |-> 0]
NullTs   == [k |-> "null",   h |-> 0, m |-> 0, off |-> 0]

\* event.get('created_at', '')
get_created_at(event) ==
    IF event.created_at = AbsentTs THEN EmptyTs ELSE event.created_at

\* Python's str < str on the strings above.  "" is below everything; the
\* ISO strings share the 19 characters "2024-03-01THH:MM:00" up to HH:MM and
\* then differ at the suffix, where '+' (43) < 'Z' (90); "not-a-date" starts
\* with 'n' (110) > '2' (50).
SuffixRank(c) == IF c.off = 0 THEN 10 ELSE c.off
StrLess(a, b) ==
    CASE a.k = "empty" -> b.k # "empty"
      [] a.k = "text"  -> FALSE
      [] a.k = "iso"   ->
            CASE b.k = "empty" -> FALSE
              [] b.k = "text"  -> TRUE
              [] OTHER -> \/ a.h < b.h
                          \/ a.h = b.h /\ a.m < b.m
                          \/ a.h = b.h /\ a.m = b.m /\ SuffixRank(a) < SuffixRank(b)
      [] OTHER -> FALSE

Pad2(n) == IF n < 10 THEN "0" \o ToString(n) ELSE ToString(n)

\* datetime.fromisoformat(s.replace('Z', '+00:00')) for a str s:
\* "ok" with the datetime, or "ValueError".
fromisoformat(c) ==
    IF c.k = "iso" THEN [res |-> "ok", h |-> c.h, m |-> c.m, off |-> c.off]
    ELSE [res |-> "ValueError", h |-> 0, m |-> 0, off |-> 0]

\* dt.strftime("%H:%M"): the wall clock of the datetime's own offset
strftime_HM(dt) == Pad2(dt.h) \o ":" \o Pad2(dt.m)

\* The instant a parsed created_at denotes, in minutes of the day, UTC
Instant(c) == (c.h * 60 + c.m) - c.off * 60

----------------------------------------------------------------------------
(* Raw events: dicts with keys event_type, created_at, description, url,   *)
(* user_agent and data.question_id; a missing key holds Absent (AbsentTs   *)
(* for created_at).  question_id holds the text the f-string renders.      *)

Event(ty, ts, desc, url, qid) ==
    [event_type |-> ty, created_at |-> ts, description |-> desc, url |-> url,
     user_agent |-> Absent, question_id |-> qid]

\* d.get(key, default)
get(d, key, default) == IF d[key] = Absent THEN default ELSE d[key]

(* str.replace('_', ' ').capitalize(), on the characters of the tag *)

LowerCase == <<"a","b","c","d","e","f","g","h","i","j","k","l","m",
               "n","o","p","q","r","s","t","u","v","w","x","y","z">>
UpperCase == <<"A","B","C","D","E","F","G","H","I","J","K","L","M",
               "N","O","P","Q","R","S","T","U","V","W","X","Y","Z">>

upper(c) == IF \E i \in 1..26 : LowerCase[i] = c
            THEN UpperCase[CHOOSE i \in 1..26 : LowerCase[i] = c] ELSE c
lower(c) == IF \E i \in 1..26 : UpperCase[i] = c
            THEN LowerCase[CHOOSE i \in 1..26 : UpperCase[i] = c] ELSE c

\* The characters of the event-type tags that reach the fallback branch
Spell(tag) ==
    CASE tag = "custom_weird_event" ->
           <<"c","u","s","t","o","m","_","w","e","i","r","d","_","e","v","e","n","t">>
      [] tag = "question_answered" ->
           <<"q","u","e","s","t","i","o","n","_","a","n","s","w","e","r","e","d">>
      [] tag = "page_blurred" ->
           <<"p","a","g","e","_","b","l","u","r","r","e","d">>
      [] tag = "Youtubeed" ->
           <<"Y","o","u","t","u","b","e","e","d">>
      [] tag = "SUBMIT" ->
           <<"S","U","B","M","I","T">>

replace_underscores(cs) == [i \in DOMAIN cs |-> IF cs[i] = "_" THEN " " ELSE cs[i]]
capitalize(cs) == [i \in DOMAIN cs |-> IF i = 1 THEN upper(cs[i]) ELSE lower(cs[i])]

\* The else branch of format_event_description.  event_type is None when the
\* key is missing: None.replace raises AttributeError.
fallback_description(event_type, description) ==
    IF event_type = Absent
    THEN [raised |-> TRUE, text |-> ""]
    ELSE LET cap == JoinStr(capitalize(replace_underscores(Spell(event_type))))
         IN  [raised |-> FALSE,
              text |-> IF description # "" THEN cap \o ": " \o description ELSE cap]

page_view_description(event) ==
    LET description == get(event, "description", "")
    IN  "Viewed page: " \o (IF description # "" THEN description
                             ELSE get(event, "url", "N/A"))

\* checker.py format_event_description
chk_format_event_description(event) ==
    LET event_type  == event.event_type
        description == get(event, "description", "")
        returns(t)  == [raised |-> FALSE, text |-> t]
    IN  CASE event_type = "session_started" -> returns("Session started")
          [] event_type = "Youtubeed" ->
                returns("Answered question:#" \o get(event, "question_id", "N/A"))
          [] event_type = "window_blurred" ->
                returns("Stopped viewing the Canvas quiz-taking page...")
          [] event_type = "window_focused" -> returns("Resumed.")
          [] event_type = "page_view" -> returns(page_view_description(event))
          [] OTHER -> fallback_description(event_type, description)

\* optimized.py format_event_description
opt_format_event_description(event) ==
    LET event_type == event.event_type
        desc       == get(event, "description", "")
        returns(t) == [raised |-> FALSE, text |-> t]
    IN  CASE event_type = "session_started" -> returns("Session started")
          [] event_type = "question_answered" ->
                returns("Answered question:#" \o get(event, "question_id", "N/A"))
          [] event_type = "window_blurred" ->
                returns("Stopped viewing the Canvas quiz-taking page...")
          [] event_type = "window_focused" -> returns("Resumed.")
          [] event_type = "page_view" -> returns(page_view_description(event))
          [] OTHER -> fallback_description(event_type, desc)

----------------------------------------------------------------------------
(* events.sort(key=lambda e: e.get('created_at', '')): a stable sort on    *)
(* the created_at strings.  Comparing a None key raises TypeError; a list  *)
(* of fewer than two elements is never compared.                           *)

RECURSIVE insert_sorted(_, _)
insert_sorted(sorted, e) ==
    \* e goes after every element whose key is not above its own (stability)
    IF sorted = <<>> THEN <<e>>
    ELSE LET last == sorted[Len(sorted)]
         IN  IF StrLess(get_created_at(e), get_created_at(last))
             THEN insert_sorted(SubSeq(sorted, 1, Len(sorted) - 1), e) \o <<last>>
             ELSE sorted \o <<e>>

RECURSIVE stable_sort(_)
stable_sort(events) ==
    IF events = <<>> THEN <<>>
    ELSE insert_sorted(stable_sort(SubSeq(events, 1, Len(events) - 1)),
                       events[Len(events)])

sort_by_created_at(events) ==
    IF Len(events) >= 2 /\ \E i \in DOMAIN events : events[i].created_at = NullTs
    THEN [raised |-> TRUE, list |-> events]
    ELSE [raised |-> FALSE, list |-> stable_sort(events)]

----------------------------------------------------------------------------
(* Normalized event records (consolidated_row / results.append({...})).    *)
(* optimized.py also stores 'full_event_json', which the exporter never    *)
(* reads and no key uses; the model leaves that field out.                 *)

Row(student_info, submission_id, time, action, event) ==
    [student_id         |-> student_info.id,
     student_name       |-> student_info.name,
     submission_id      |-> submission_id,
     timestamp_hh_mm    |-> time,
     action_description |-> action,
     raw_event_type     |-> get(event, "event_type", "N/A"),
     raw_description    |-> get(event, "description", ""),
     user_agent         |-> get(event, "user_agent", ""),
     url                |-> get(event, "url", "")]

\* checker.py: try: fromisoformat(...).strftime(...) except ValueError: pass
\* None.replace raises AttributeError, which the except clause lets through.
chk_timestamp_hh_mm(event) ==
    LET created_at_iso == get_created_at(event)
        dt == fromisoformat(created_at_iso)
    IN  IF created_at_iso = NullTs THEN [raised |-> TRUE, text |-> ""]
        ELSE [raised |-> FALSE,
              text |-> IF dt.res = "ok" THEN strftime_HM(dt) ELSE "N/A"]

\* optimized.py: try: ... except: time = 'N/A'   (a bare except)
opt_timestamp_hh_mm(event) ==
    LET ts == get_created_at(event)
        dt == fromisoformat(ts)
    IN  [raised |-> FALSE,
         text |-> IF ts # NullTs /\ dt.res = "ok" THEN strftime_HM(dt) ELSE "N/A"]

\* The body of `for event in events:` in checker.py __main__
chk_consolidated_row(student_info, submission_id, event) ==
    LET time   == chk_timestamp_hh_mm(event)
        action == chk_format_event_description(event)
    IN  [raised |-> time.raised \/ action.raised,
         row |-> Row(student_info, submission_id, time.text, action.text, event)]

\* The body of `for event in events:` in optimized.py
opt_result_row(student_info, submission_id, event) ==
    LET time   == opt_timestamp_hh_mm(event)
        action == opt_format_event_description(event)
    IN  [raised |-> time.raised \/ action.raised,
         row |-> Row(student_info, submission_id, time.text, action.text, event)]

\* `for event in events:` appending rows until an iteration raises;
\* variant selects the loop body.
RECURSIVE append_rows(_, _, _, _)
append_rows(v, student_info, submission_id, events) ==
    IF events = <<>> THEN [raised |-> FALSE, rows |-> <<>>]
    ELSE LET r == IF v = "seq"
                  THEN chk_consolidated_row(student_info, submission_id, Head(events))
                  ELSE opt_result_row(student_info, submission_id, Head(events))
         IN  IF r.raised THEN [raised |-> TRUE, rows |-> <<>>]
             ELSE LET rest == append_rows(v, student_info, submission_id, Tail(events))
                  IN  [raised |-> rest.raised, rows |-> <<r.row>> \o rest.rows]

\* checker.py __main__, `if events:` block: sort, then one row per event.
\* events is the list-or-None fetch_canvas_action_log returned.  rows are
\* the rows appended to all_consolidated_events before any exception.
\* generate_console_report repeats the same parsing and formatting on the
\* same events and only prints.
chk_process_events(student_info, submission_id, events) ==
    IF ~Truthy(events) THEN [raised |-> FALSE, rows |-> <<>>]
    ELSE LET sorted == sort_by_created_at(events.list)
         IN  IF sorted.raised THEN [raised |-> TRUE, rows |-> <<>>]
             ELSE append_rows("seq", student_info, submission_id, sorted.list)

\* optimized.py process_student_submissions, from events.sort to the end
\* of the loop over the events of one submission.
opt_process_events(student_info, submission_id, events) ==
    LET sorted == sort_by_created_at(events)
    IN  IF sorted.raised THEN [raised |-> TRUE, rows |-> <<>>]
        ELSE append_rows("opt", student_info, submission_id, sorted.list)

----------------------------------------------------------------------------
(* checker.py skip_duplicates *)

\* Mutant: the identity key without the submission id
event_key_without_submission(event) ==
    <<0, event.timestamp_hh_mm, event.action_description, event.raw_event_type>>

event_key(event) ==
    <<event.submission_id, event.timestamp_hh_mm,
      event.action_description, event.raw_event_type>>

RECURSIVE skip_duplicates_loop(_, _, _)
skip_duplicates_loop(events_list, seen, unique_events) ==
    IF events_list = <<>> THEN unique_events
    ELSE LET event == Head(events_list)
         IN  IF event_key(event) \notin seen
             THEN skip_duplicates_loop(Tail(events_list),
                                       seen \cup {event_key(event)},
                                       Append(unique_events, event))
             ELSE skip_duplicates_loop(Tail(events_list), seen, unique_events)

\* Mutant: a dict keyed by event_key, whose later entries overwrite earlier
\* ones: each key keeps its first position and its last record
skip_duplicates_last_wins(events_list) ==
    LET firsts == skip_duplicates_loop(events_list, {}, <<>>)
        last(key) == events_list[CHOOSE i \in DOMAIN events_list :
                        /\ event_key(events_list[i]) = key
                        /\ \A j \in DOMAIN events_list :
                              event_key(events_list[j]) = key => j <= i]
    IN  [k \in DOMAIN firsts |-> last(event_key(firsts[k]))]

\* Mutant: `seen` is emptied whenever a duplicate is dropped, so a third
\* record of the same key survives the first pass and not the second
RECURSIVE skip_duplicates_loop_seen_reset(_, _, _)
skip_duplicates_loop_seen_reset(events_list, seen, unique_events) ==
    IF events_list = <<>> THEN unique_events
    ELSE LET event == Head(events_list)
         IN  IF event_key(event) \notin seen
             THEN skip_duplicates_loop_seen_reset(Tail(events_list),
                                                  seen \cup {event_key(event)},
                                                  Append(unique_events, event))
             ELSE skip_duplicates_loop_seen_reset(Tail(events_list), {},
                                                  unique_events)

skip_duplicates_seen_reset(events_list) ==
    skip_duplicates_loop_seen_reset(events_list, {}, <<>>)

skip_duplicates(events_list) == skip_duplicates_loop(events_list, {}, <<>>)

----------------------------------------------------------------------------
(* The CSV file: whether it was created, and its rows below the header *)

NoFile == [written |-> FALSE, rows |-> <<>>]

\* checker.py save_all_events_to_single_csv: nothing is written for an
\* empty list
chk_save_all_events_to_single_csv(events) ==
    IF events = <<>> THEN NoFile ELSE [written |-> TRUE, rows |-> events]

\* optimized.py save_all_events_to_single_csv: header, then one row each
opt_save_all_events_to_single_csv(events) == [written |-> TRUE, rows |-> events]

----------------------------------------------------------------------------
(* HTTP responses.  kind "ok" is a 2xx response with a JSON body;          *)
(* "http_error" is what raise_for_status() turns into HTTPError;           *)
(* "error" is any other exception of the request (ConnectionError,         *)
(* Timeout, JSONDecodeError).  link is the Link header: present or not,    *)
(* and next = the page its rel="next" URL names (0: no rel="next" link).   *)

NoLinkHeader == [present |-> FALSE, next |-> 0]
LinkNoNext   == [present |-> TRUE,  next |-> 0]
LinkNext(p)  == [present |-> TRUE,  next |-> p]

OkPage(items, link) == [kind |-> "ok", status |-> 200, items |-> items, link |-> link]
HttpError(status)   == [kind |-> "http_error", status |-> status, items |-> <<>>,
                        link |-> NoLinkHeader]
OtherError          == [kind |-> "error", status |-> 0, items |-> <<>>,
                        link |-> NoLinkHeader]
Failures == {HttpError(401), HttpError(500), OtherError}

\* The response to an events request: has_key tells whether the body holds
\* 'quiz_submission_events'
OkEvents(has_key, events) ==
    [kind |-> "ok", status |-> 200, has_key |-> has_key, events |-> events]
FailedEvents(kind, status) ==
    [kind |-> kind, status |-> status, has_key |-> FALSE, events |-> <<>>]
EventsFailures == {FailedEvents("http_error", 500), FailedEvents("error", 0)}

(* Enrollment and submission items of a page.  has_user_id is             *)
(* 'user_id' in enrollment; a submission whose 'id' is missing, null or 0  *)
(* holds NoId: `if submission_id` treats the three alike.                  *)

NoId == 0
Enrollment(role, has_user_id, user_id, name) ==
    [role |-> role, has_user_id |-> has_user_id, user_id |-> user_id, name |-> name]
Submission(id) == [id |-> id]

\* The API serves the course's students in roster order: the k-th student
\* enrollment it returns has user_id k; and a user's submissions in order of
\* attempt: the k-th one that has an id has id 10 * user_id + k.
StudentIds == 1..MaxStudents
StudentName(id) == IF id = 1 THEN "Ann" ELSE Absent   \* only user 1 has a 'name'
EnrollItems ==
    {Enrollment("StudentEnrollment", TRUE, id, StudentName(id)) : id \in StudentIds}
    \cup {Enrollment("TeacherEnrollment", TRUE, 9, "Tom"),
          Enrollment("StudentEnrollment", FALSE, 0, "Eve")}
SubmissionIds(user_id) == {10 * user_id + k : k \in 1..MaxSubs}
SubmissionItems(user_id) ==
    {Submission(id) : id \in SubmissionIds(user_id) \cup {NoId}}

\* ids is the sequence first + 1, first + 2, ...
Consecutive(ids, first) == \A i \in DOMAIN ids : ids[i] = first + i

StudentIdsOf(enrollments) ==
    LET s == SelectSeq(enrollments,
                       LAMBDA e : e.role = "StudentEnrollment" /\ e.has_user_id)
    IN  [i \in DOMAIN s |-> s[i].user_id]
SubmissionIdsOf(submissions) ==
    LET s == SelectSeq(submissions, LAMBDA x : x.id # NoId)
    IN  [i \in DOMAIN s |-> s[i].id]

----------------------------------------------------------------------------
(* The paginated fetches of checker.py.  A call record is the frame of     *)
(* one run of the while loop: fn, the user_id parameter, the locals page   *)
(* and acc (students_info / all_submissions), and two logs: the request    *)
(* parameters sent and the responses received.                             *)

IdleCall ==
    [fn |-> "idle", user_id |-> 0, page |-> 0, acc |-> <<>>, served |-> <<>>,
     requests |-> <<>>, status |-> "idle", result |-> None]
NewCall(fn, user_id) ==
    [fn |-> fn, user_id |-> user_id, page |-> 1, acc |-> <<>>, served |-> <<>>,
     requests |-> <<>>, status |-> "running", result |-> None]

\* params of requests.get: the caller's query, per_page, and params['page']
RequestParams(c) ==
    [fn |-> c.fn, user_id |-> c.user_id, per_page |-> PerPage, page |-> c.page]

\* The Link header scan: the URL of the rel="next" link, as the page it
\* names; 0 when the header or the link is missing (next_page_link = None)
next_page_link(link) == IF link.present THEN link.next ELSE 0

Return(c, result) == [c EXCEPT !.status = "returned", !.result = result]

\* Mutant: every enrollment that has a user_id is taken, whatever its role
RECURSIVE chk_students_of_any_role(_)
chk_students_of_any_role(enrollments) ==
    IF enrollments = <<>> THEN <<>>
    ELSE LET enrollment == Head(enrollments)
         IN  (IF enrollment.has_user_id
              THEN <<[id |-> enrollment.user_id,
                      name |-> get(enrollment, "name", "N/A")]>>
              ELSE <<>>) \o chk_students_of_any_role(Tail(enrollments))

\* The student_info entries one page of enrollments adds to students_info
RECURSIVE chk_students_of(_)
chk_students_of(enrollments) ==
    IF enrollments = <<>> THEN <<>>
    ELSE LET enrollment == Head(enrollments)
         IN  (IF enrollment.role = "StudentEnrollment" /\ enrollment.has_user_id
              THEN <<[id |-> enrollment.user_id,
                      name |-> get(enrollment, "name", "N/A")]>>
              ELSE <<>>) \o chk_students_of(Tail(enrollments))

\* Mutant: a failed page request returns the submissions accumulated so
\* far instead of None
chk_fetch_quiz_submissions_step_partial(c, resp) ==
    LET c1 == [c EXCEPT !.requests = Append(@, RequestParams(c)),
                        !.served = Append(@, resp)]
        all_submissions == c.acc \o resp.items
    IN  IF resp.kind # "ok" \/ resp.items = <<>> THEN Return(c1, Some(c.acc))
        ELSE IF next_page_link(resp.link) # 0
             THEN [c1 EXCEPT !.acc = all_submissions, !.page = @ + 1]
             ELSE Return([c1 EXCEPT !.acc = all_submissions], Some(all_submissions))

\* Mutant: the loop goes on to the next page when the Link header or its
\* rel="next" link is missing, and stops only at an empty page
chk_fetch_quiz_submissions_step_no_link_break(c, resp) ==
    LET c1 == [c EXCEPT !.requests = Append(@, RequestParams(c)),
                        !.served = Append(@, resp)]
    IN  IF resp.kind # "ok" THEN Return(c1, None)
        ELSE IF resp.items = <<>> THEN Return(c1, Some(c.acc))
        ELSE [c1 EXCEPT !.acc = c.acc \o resp.items, !.page = @ + 1]

\* One iteration of `while True:` in fetch_quiz_submissions_for_user, given
\* the response to its request
chk_fetch_quiz_submissions_step(c, resp) ==
    LET c1 == [c EXCEPT !.requests = Append(@, RequestParams(c)),
                        !.served = Append(@, resp)]
        all_submissions == c.acc \o resp.items
    IN  IF resp.kind # "ok" THEN Return(c1, None)
        ELSE IF resp.items = <<>> THEN Return(c1, Some(c.acc))
        ELSE IF next_page_link(resp.link) # 0
             THEN [c1 EXCEPT !.acc = all_submissions, !.page = @ + 1]
             ELSE Return([c1 EXCEPT !.acc = all_submissions], Some(all_submissions))

\* Mutant: a failed page request returns the students accumulated so far
\* instead of None
chk_fetch_course_enrollments_step_partial(c, resp) ==
    LET c1 == [c EXCEPT !.requests = Append(@, RequestParams(c)),
                        !.served = Append(@, resp)]
        students_info == c.acc \o chk_students_of(resp.items)
    IN  IF resp.kind # "ok" \/ resp.items = <<>> THEN Return(c1, Some(c.acc))
        ELSE IF next_page_link(resp.link) # 0
             THEN [c1 EXCEPT !.acc = students_info, !.page = @ + 1]
             ELSE Return([c1 EXCEPT !.acc = students_info], Some(students_info))

\* Mutant: a request that fails after the first page returns the students
\* of the pages before it; a failure on the first page returns None
chk_fetch_course_enrollments_step_keeps_pages(c, resp) ==
    LET c1 == [c EXCEPT !.requests = Append(@, RequestParams(c)),
                        !.served = Append(@, resp)]
        students_info == c.acc \o chk_students_of(resp.items)
    IN  IF resp.kind # "ok" THEN Return(c1, IF c.page > 1 THEN Some(c.acc) ELSE None)
        ELSE IF resp.items = <<>> THEN Return(c1, Some(c.acc))
        ELSE IF next_page_link(resp.link) # 0
             THEN [c1 EXCEPT !.acc = students_info, !.page = @ + 1]
             ELSE Return([c1 EXCEPT !.acc = students_info], Some(students_info))

\* One iteration of `while True:` in fetch_course_enrollments
chk_fetch_course_enrollments_step(c, resp) ==
    LET c1 == [c EXCEPT !.requests = Append(@, RequestParams(c)),
                        !.served = Append(@, resp)]
        students_info == c.acc \o chk_students_of(resp.items)
    IN  IF resp.kind # "ok" THEN Return(c1, None)
        ELSE IF resp.items = <<>> THEN Return(c1, Some(c.acc))
        ELSE IF next_page_link(resp.link) # 0
             THEN [c1 EXCEPT !.acc = students_info, !.page = @ + 1]
             ELSE Return([c1 EXCEPT !.acc = students_info], Some(students_info))

(* The pages the API may serve.  At most MaxPages non-empty pages, and in  *)
(* all at most MaxStudents student enrollments / MaxSubs submissions.      *)

MaxPerPage == 2
LinksOf(page) == {NoLinkHeader, LinkNoNext, LinkNext(page + 1), LinkNext(page + 2)}

PageItems(c) ==
    IF c.page > MaxPages THEN {<<>>}
    ELSE IF c.fn = "enrollments"
    THEN {items \in SeqsUpTo(EnrollItems, MaxPerPage) :
            Consecutive(StudentIdsOf(items), Len(c.acc))}
    ELSE {items \in SeqsUpTo(SubmissionItems(c.user_id), MaxPerPage) :
            /\ Len(c.acc) + Len(items) <= MaxSubs
            /\ Consecutive(SubmissionIdsOf(items),
                           10 * c.user_id + Len(SubmissionIdsOf(c.acc)))}

PageResponses(c) ==
    Failures \cup {OkPage(items, link) : items \in PageItems(c), link \in LinksOf(c.page)}

\* The requests.get of the loop in progress, its response, and the rest of
\* the iteration
chk_page_request ==
    /\ call.status = "running"
    /\ \E resp \in PageResponses(call) :
          /\ call' = IF call.fn = "enrollments"
                     THEN chk_fetch_course_enrollments_step(call, resp)
                     ELSE chk_fetch_quiz_submissions_step(call, resp)
          /\ enroll_failure' = IF call.fn = "enrollments" /\ resp.kind # "ok"
                               THEN <<resp>> ELSE enroll_failure
    /\ issued' = issued \cup {call.fn}
    /\ UNCHANGED <<variant, pc, students, si, subs, sj, all_events, csv, task,
                   hist, fin, fout>>

----------------------------------------------------------------------------
(* A paginated fetch on its own: one call of fetch_course_enrollments or   *)
(* of fetch_quiz_submissions_for_user against any API within the bounds.   *)

InitPage ==
    /\ variant = "page"
    /\ pc = "call"
    /\ call \in {NewCall("enrollments", 0)}
                \cup {NewCall("submissions", id) : id \in StudentIds}
    /\ students = None /\ si = 0 /\ subs = None /\ sj = 0
    /\ all_events = <<>> /\ csv = NoFile /\ task = <<>>
    /\ issued = {} /\ hist = <<>> /\ enroll_failure = <<>>
    /\ fin = <<>> /\ fout = <<>>

NextPage == chk_page_request

SpecPage == InitPage /\ [][NextPage]_vars

----------------------------------------------------------------------------
(* The single-request fetchers *)

\* checker.py fetch_canvas_action_log: data.get('quiz_submission_events'),
\* None when the key is missing and after every exception
chk_fetch_canvas_action_log(resp) ==
    IF resp.kind # "ok" THEN None
    ELSE IF ~resp.has_key THEN None
    ELSE Some(resp.events)

\* optimized.py fetch_canvas_action_log: .get('quiz_submission_events', []),
\* [] after every exception
opt_fetch_canvas_action_log(resp) ==
    IF resp.kind # "ok" THEN <<>> ELSE resp.events

\* optimized.py fetch_quiz_submissions_for_user: one request, no page loop
opt_fetch_quiz_submissions_for_user(resp) ==
    IF resp.kind # "ok" THEN <<>> ELSE resp.items

\* optimized.py fetch_course_enrollments: one request; enrollment['user_id']
\* raises KeyError inside the try, which ends the loop and returns the
\* students appended so far
RECURSIVE opt_students_of(_)
opt_students_of(enrollments) ==
    IF enrollments = <<>> THEN <<>>
    ELSE LET enrollment == Head(enrollments)
         IN  IF enrollment.role # "StudentEnrollment"
             THEN opt_students_of(Tail(enrollments))
             ELSE IF ~enrollment.has_user_id THEN <<>>
             ELSE <<[id |-> enrollment.user_id,
                     name |-> get(enrollment, "name", "N/A")]>>
                  \o opt_students_of(Tail(enrollments))

opt_fetch_course_enrollments(resp) ==
    IF resp.kind # "ok" THEN <<>> ELSE opt_students_of(resp.items)

----------------------------------------------------------------------------
(* The events the API serves during a run of a pipeline *)

E1   == Event("session_started", Iso(10, 0, 0), Absent, "u1", Absent)
E2   == Event("session_started", Iso(10, 0, 0), Absent, "u2", Absent)
EBad == Event(Absent, Iso(10, 0, 0), Absent, "u1", Absent)
PipelineEvents == {E1, E2, EBad}

EventsResponses ==
    EventsFailures \cup {OkEvents(FALSE, <<>>)}
    \cup {OkEvents(TRUE, events) : events \in SeqsUpTo(PipelineEvents, MaxEvents)}

(* History of one student's processing, as the API saw it: whether a       *)
(* submissions request failed, the submissions its pages served, and per   *)
(* events request the submission asked for and the response.               *)
NoHist == [subs_failed |-> FALSE, served |-> <<>>, fetched |-> <<>>]
Fetched(submission_id, resp) == [submission_id |-> submission_id, resp |-> resp]

----------------------------------------------------------------------------
(* checker.py __main__ *)

\* The for loop over all_students_info moves to student i, or ends
chk_goto_student(i) ==
    IF i <= Len(students'.list)
    THEN /\ pc' = "subs"
         /\ si' = i
         /\ call' = NewCall("submissions", students'.list[i].id)
    ELSE /\ pc' = "save"
         /\ si' = i
         /\ call' = IdleCall

\* fetch_course_enrollments returned: `if not all_students_info:` ... else
chk_enrollments_returned ==
    /\ variant = "seq" /\ pc = "enroll" /\ call.status = "returned"
    /\ students' = call.result
    /\ IF ~Truthy(call.result)
       THEN /\ pc' = "done"
            /\ call' = IdleCall
            /\ UNCHANGED <<si, hist>>
       ELSE /\ hist' = [i \in 1..Len(call.result.list) |-> NoHist]
            /\ chk_goto_student(1)
    /\ UNCHANGED <<variant, subs, sj, all_events, csv, task, issued,
                   enroll_failure, fin, fout>>

\* fetch_quiz_submissions_for_user returned: `if all_student_submissions:`
chk_submissions_returned ==
    /\ variant = "seq" /\ pc = "subs" /\ call.status = "returned"
    /\ subs' = call.result
    /\ hist' = [hist EXCEPT ![si].subs_failed = \E k \in DOMAIN call.served :
                                                  call.served[k].kind # "ok",
                            ![si].served = Concat([k \in DOMAIN call.served |->
                                                     call.served[k].items])]
    /\ UNCHANGED students
    /\ IF Truthy(call.result)
       THEN pc' = "submission" /\ sj' = 1 /\ call' = IdleCall /\ UNCHANGED si
       ELSE chk_goto_student(si + 1) /\ UNCHANGED sj
    /\ UNCHANGED <<variant, all_events, csv, task, issued, enroll_failure, fin, fout>>

\* The inner for loop moves past submission sj
chk_next_submission ==
    IF sj < Len(subs.list)
    THEN pc' = "submission" /\ sj' = sj + 1 /\ UNCHANGED <<si, call>>
    ELSE chk_goto_student(si + 1) /\ UNCHANGED sj

\* One iteration of `for submission in all_student_submissions:`
chk_process_submission ==
    /\ variant = "seq" /\ pc = "submission"
    /\ UNCHANGED students
    /\ LET student_info  == students.list[si]
           submission_id == subs.list[sj].id
       IN  IF submission_id = NoId
           THEN /\ chk_next_submission
                /\ UNCHANGED <<all_events, hist, issued>>
           ELSE \E resp \in EventsResponses :
                  LET events == chk_fetch_canvas_action_log(resp)
                      done   == chk_process_events(student_info, submission_id, events)
                  IN  /\ issued' = issued \cup {"events"}
                      /\ hist' = [hist EXCEPT ![si].fetched =
                                      Append(@, Fetched(submission_id, resp))]
                      /\ all_events' = all_events \o done.rows
                      /\ IF done.raised
                         THEN pc' = "crashed" /\ UNCHANGED <<si, sj, call>>
                         ELSE chk_next_submission
    /\ UNCHANGED <<variant, subs, csv, task, enroll_failure, fin, fout>>

\* Step 4: `if all_consolidated_events:` skip_duplicates, then save
chk_save ==
    /\ variant = "seq" /\ pc = "save"
    /\ pc' = "done"
    /\ csv' = IF all_events # <<>>
              THEN chk_save_all_events_to_single_csv(skip_duplicates(all_events))
              ELSE csv
    /\ UNCHANGED <<variant, students, si, subs, sj, all_events, task, call,
                   issued, hist, enroll_failure, fin, fout>>

----------------------------------------------------------------------------
(* optimized.py __main__ and its worker tasks.  task[i] is the future of   *)
(* process_student_submissions(students[i]):                               *)
(*   st       "queued", "running", "finished" (returned results),          *)
(*            "raised" (the future holds an exception)                     *)
(*   subs, j  the submissions fetched and the for loop's position; j = 0   *)
(*            while a running task waits for its submissions response      *)
(*   requesting  the task's thread is inside session.get: its request is   *)
(*            sent and not answered yet                                    *)
(*   results  the local list results                                       *)
(*   collected  as_completed has yielded the future to __main__            *)

NewTask ==
    [st |-> "queued", subs |-> <<>>, j |-> 0, results |-> <<>>, collected |-> FALSE,
     requesting |-> FALSE]

\* The tasks that hold a worker of the pool ("blocked": inside a request that
\* is never answered)
Running == {i \in DOMAIN task : task[i].st \in {"running", "blocked"}}
\* Mutant: one thread per submitted task
worker_available_unbounded == TRUE

\* ThreadPoolExecutor(max_workers=5): a queued task starts only when fewer
\* than max_workers tasks hold a worker
worker_available == Cardinality(Running) < PoolSize

Done(i) == task[i].st \in {"finished", "raised"}

\* The enrollment responses of the single request of optimized.py
EnrollmentResponses ==
    Failures \cup
    {OkPage(items, link) :
        items \in {e \in SeqsUpTo(EnrollItems, MaxPerPage) :
                     Consecutive(StudentIdsOf(e), 0)},
        link \in LinksOf(1)}

SubmissionsResponses(user_id) ==
    Failures \cup
    {OkPage(items, link) :
        items \in {x \in SeqsUpTo(SubmissionItems(user_id), MaxSubs) :
                     Consecutive(SubmissionIdsOf(x), 10 * user_id)},
        link \in LinksOf(1)}

\* students = fetch_course_enrollments(...), then executor.submit for each
opt_fetch_enrollments_on(responses) ==
    /\ variant = "opt" /\ pc = "enroll"
    /\ \E resp \in responses :
         LET result == opt_fetch_course_enrollments(resp)
         IN  /\ students' = Some(result)
             /\ enroll_failure' = IF resp.kind # "ok" THEN <<resp>> ELSE <<>>
             /\ task' = [i \in 1..Len(result) |-> NewTask]
             /\ hist' = [i \in 1..Len(result) |-> NoHist]
    /\ issued' = issued \cup {"enrollments"}
    /\ pc' = "pool"
    /\ UNCHANGED <<variant, si, subs, sj, all_events, csv, call, fin, fout>>

opt_fetch_enrollments == opt_fetch_enrollments_on(EnrollmentResponses)

\* A free worker takes the oldest queued task and runs it up to session.get
\* of fetch_quiz_submissions_for_user: the submissions request is sent and
\* the task waits for its response (st = "running", j = 0)
opt_task_start(i) ==
    /\ variant = "opt" /\ pc \in {"pool", "unwinding"}
    /\ task[i].st = "queued"
    /\ \A k \in 1..(i - 1) : task[k].st # "queued"
    /\ worker_available
    /\ task' = [task EXCEPT ![i].st = "running", ![i].requesting = TRUE]
    /\ issued' = issued \cup {"submissions"}
    /\ UNCHANGED <<variant, pc, students, si, subs, sj, all_events, csv, call,
                   hist, enroll_failure, fin, fout>>

\* The response to the submissions request of task i arrives, in any order
\* among the tasks that wait for one, and fetch_quiz_submissions_for_user
\* returns
opt_task_fetch_submissions_on(i, responses) ==
    /\ variant = "opt" /\ pc \in {"pool", "unwinding"}
    /\ task[i].st = "running" /\ task[i].j = 0 /\ task[i].requesting
    /\ \E resp \in responses :
         LET submissions == opt_fetch_quiz_submissions_for_user(resp)
         IN  /\ task' = [task EXCEPT ![i].subs = submissions,
                                     ![i].j = 1,
                                     ![i].requesting = FALSE,
                                     ![i].st = IF submissions = <<>>
                                               THEN "finished" ELSE "running"]
             /\ hist' = [hist EXCEPT ![i].subs_failed = (resp.kind # "ok"),
                                     ![i].served = resp.items]
    /\ UNCHANGED <<variant, pc, students, si, subs, sj, all_events, csv, call,
                   issued, enroll_failure, fin, fout>>

opt_task_fetch_submissions(i) ==
    opt_task_fetch_submissions_on(i, SubmissionsResponses(students.list[i].id))

\* A running task at a submission with an id calls fetch_canvas_action_log:
\* the events request is sent and the task waits inside session.get
opt_task_request_events(i) ==
    /\ variant = "opt" /\ pc \in {"pool", "unwinding"}
    /\ task[i].st = "running" /\ task[i].j >= 1 /\ ~task[i].requesting
    /\ task[i].subs[task[i].j].id # NoId
    /\ task' = [task EXCEPT ![i].requesting = TRUE]
    /\ issued' = issued \cup {"events"}
    /\ UNCHANGED <<variant, pc, students, si, subs, sj, all_events, csv, call,
                   hist, enroll_failure, fin, fout>>

\* The rest of one iteration of `for sub in submissions:` of a running task:
\* `continue` at a submission without id, or the response to the events
\* request arrives and its events are processed
opt_task_process_submission_on(i, responses) ==
    /\ variant = "opt" /\ pc \in {"pool", "unwinding"}
    /\ task[i].st = "running" /\ task[i].j >= 1
    /\ LET t == task[i]
           student_info  == students.list[i]
           submission_id == t.subs[t.j].id
           next_st == IF t.j < Len(t.subs) THEN "running" ELSE "finished"
       IN  IF submission_id = NoId
           THEN /\ task' = [task EXCEPT ![i].j = t.j + 1, ![i].st = next_st]
                /\ UNCHANGED hist
           ELSE /\ t.requesting
                /\ \E resp \in responses :
                     LET events == opt_fetch_canvas_action_log(resp)
                         done   == opt_process_events(student_info, submission_id, events)
                     IN  /\ hist' = [hist EXCEPT ![i].fetched =
                                         Append(@, Fetched(submission_id, resp))]
                         /\ task' = IF done.raised
                                    THEN [task EXCEPT ![i].st = "raised",
                                                      ![i].requesting = FALSE]
                                    ELSE [task EXCEPT ![i].results = @ \o done.rows,
                                                      ![i].j = t.j + 1,
                                                      ![i].st = next_st,
                                                      ![i].requesting = FALSE]
    /\ UNCHANGED <<variant, pc, students, si, subs, sj, all_events, csv, call,
                   issued, enroll_failure, fin, fout>>

opt_task_process_submission(i) == opt_task_process_submission_on(i, EventsResponses)

\* Mutant: a task that returns no rows is given a placeholder record
opt_collect_placeholder(i) ==
    /\ variant = "opt" /\ pc = "pool"
    /\ Done(i) /\ ~task[i].collected
    /\ task' = [task EXCEPT ![i].collected = TRUE]
    /\ IF task[i].st = "raised"
       THEN pc' = "unwinding" /\ UNCHANGED all_events
       ELSE /\ pc' = pc
            /\ all_events' = all_events \o
                  (IF task[i].results = <<>>
                   THEN <<Row(students.list[i], NoId, "N/A", "No submissions",
                              Event(Absent, AbsentTs, Absent, Absent, Absent))>>
                   ELSE task[i].results)
    /\ UNCHANGED <<variant, students, si, subs, sj, csv, call, issued, hist,
                   enroll_failure, fin, fout>>

\* `for f in as_completed(futures): all_events.extend(f.result())`: one
\* iteration, on a completed future not yet yielded.  f.result() re-raises
\* the task's exception in __main__.
opt_collect(i) ==
    /\ variant = "opt" /\ pc = "pool"
    /\ Done(i) /\ ~task[i].collected
    /\ task' = [task EXCEPT ![i].collected = TRUE]
    /\ IF task[i].st = "raised"
       THEN pc' = "unwinding" /\ UNCHANGED all_events
       ELSE pc' = pc /\ all_events' = all_events \o task[i].results
    /\ UNCHANGED <<variant, students, si, subs, sj, csv, call, issued, hist,
                   enroll_failure, fin, fout>>

\* The exception leaves the `with` block: executor.shutdown(wait=True) has
\* let every task finish, and the traceback ends the program
opt_unwound ==
    /\ variant = "opt" /\ pc = "unwinding"
    /\ \A i \in DOMAIN task : Done(i)
    /\ pc' = "crashed"
    /\ UNCHANGED <<variant, students, si, subs, sj, all_events, csv, task, call,
                   issued, hist, enroll_failure, fin, fout>>

\* After the pool: `if all_events:` save ... else "No events collected."
opt_save ==
    /\ variant = "opt" /\ pc = "pool"
    /\ \A i \in DOMAIN task : task[i].collected
    /\ pc' = "done"
    /\ csv' = IF all_events # <<>>
              THEN opt_save_all_events_to_single_csv(all_events)
              ELSE csv
    /\ UNCHANGED <<variant, students, si, subs, sj, all_events, task, call,
                   issued, hist, enroll_failure, fin, fout>>

----------------------------------------------------------------------------
(* The two pipelines *)

Init ==
    /\ variant \in {"seq", "opt"}
    /\ pc = "enroll"
    /\ call = IF variant = "seq" THEN NewCall("enrollments", 0) ELSE IdleCall
    /\ students = None /\ si = 0 /\ subs = None /\ sj = 0
    /\ all_events = <<>> /\ csv = NoFile /\ task = <<>>
    /\ issued = {} /\ hist = <<>> /\ enroll_failure = <<>>
    /\ fin = <<>> /\ fout = <<>>

Next ==
    \/ chk_page_request
    \/ chk_enrollments_returned
    \/ chk_submissions_returned
    \/ chk_process_submission
    \/ chk_save
    \/ opt_fetch_enrollments
    \/ \E i \in DOMAIN task : opt_task_start(i)
    \/ \E i \in DOMAIN task : opt_task_fetch_submissions(i)
    \/ \E i \in DOMAIN task : opt_task_request_events(i)
    \/ \E i \in DOMAIN task : opt_task_process_submission(i)
    \/ \E i \in DOMAIN task : opt_collect(i)
    \/ opt_unwound
    \/ opt_save

Spec == Init /\ [][Next]_vars

----------------------------------------------------------------------------
(* Properties of the paginated fetches (SpecPage) *)

\* A response after which the loop requests another page
Continues(resp) ==
    resp.kind = "ok" /\ resp.items # <<>> /\ resp.link.present /\ resp.link.next # 0

AllOk(served) == \A k \in DOMAIN served : served[k].kind = "ok"
NonEmptyPages(served) == SelectSeq(served, LAMBDA r : r.kind = "ok" /\ r.items # <<>>)

\* What the fetcher keeps of a page's items
ItemsKept(fn, items) == IF fn = "enrollments" THEN chk_students_of(items) ELSE items

RECURSIVE ItemsOfPages(_, _)
ItemsOfPages(fn, pages) ==
    IF pages = <<>> THEN <<>>
    ELSE ItemsKept(fn, Head(pages).items) \o ItemsOfPages(fn, Tail(pages))

\* C1: a paginated fetch (enrollments, submissions of a user) against an API
\* that serves N non-empty pages and then an empty page, or whose N-th page
\* has no "next" link, issues one request per page, never requests a page
\* after a page that is empty or lacks the "next" link, makes at most N + 1
\* requests, and returns exactly the items of the N pages (N = 0 included).
C1_PaginationTerminates ==
    LET served == call.served
        n      == Len(NonEmptyPages(served))
    IN  /\ Len(call.requests) = Len(served)
        /\ \A k \in DOMAIN call.requests : call.requests[k].page = k
        /\ \A k \in 1..(Len(served) - 1) : Continues(served[k])
        /\ Len(served) <= MaxPages + 1
        /\ call.status = "running" => \A k \in DOMAIN served : Continues(served[k])
        /\ (call.status = "returned" /\ AllOk(served)) =>
              /\ ~Continues(served[Len(served)])
              /\ Len(served) \in {n, n + 1}
              /\ call.result = Some(ItemsOfPages(call.fn, NonEmptyPages(served)))

\* Witness of C1: a fetch has returned after three non-empty pages, the last
\* of which came without any Link header
C1_Witness ==
    /\ call.status = "returned" /\ AllOk(call.served)
    /\ Len(call.served) = 3
    /\ call.served[3].items # <<>> /\ ~call.served[3].link.present
    /\ Len(call.result.list) >= 2

\* C8: the first request carries the caller's query, per_page and page 1;
\* every later request asks for the page the previous response's "next"
\* link names.
C8_RequestsFollowNextLink ==
    \A k \in DOMAIN call.requests :
        IF k = 1
        THEN call.requests[1] = [fn |-> call.fn, user_id |-> call.user_id,
                                 per_page |-> PerPage, page |-> 1]
        ELSE call.requests[k].page = next_page_link(call.served[k - 1].link)

----------------------------------------------------------------------------
(* Properties of the pipelines (Spec) *)

Finished == pc = "done"
Crashed  == pc \in {"unwinding", "crashed"}

\* The rows one response to an events request yields in a given pipeline
RowsOf(v, student_info, fetched) ==
    IF v = "seq"
    THEN chk_process_events(student_info, fetched.submission_id,
                            chk_fetch_canvas_action_log(fetched.resp))
    ELSE opt_process_events(student_info, fetched.submission_id,
                            opt_fetch_canvas_action_log(fetched.resp))

\* C2: the reference order.  The responses each task received fix its
\* results; when the tasks complete in the order they were submitted the
\* export is the students' results in enrollment order.  The export is the
\* same under every interleaving iff it always equals this sequence.
InOrderEvents == Concat([i \in DOMAIN task |-> task[i].results])

\* C2: the rows handed to the exporter do not depend on the order in which
\* the workers complete.
C2_ExportOrderDeterministic ==
    (variant = "opt" /\ Finished) => csv.rows = InOrderEvents

NoDuplicateKeys(rows) ==
    \A i, j \in DOMAIN rows : i < j => event_key(rows[i]) # event_key(rows[j])

\* C3: no two exported rows share the identity key (submission_id,
\* timestamp_hh_mm, action_description, raw_event_type).
C3_ExportHasNoDuplicateKeys == NoDuplicateKeys(csv.rows)

\* C5: no worker task ends with an exception, so f.result() never raises in
\* the merge loop.
C5_NoExceptionCrossesTaskBoundary ==
    variant = "opt" => /\ \A i \in DOMAIN task : task[i].st # "raised"
                       /\ ~Crashed


\* What student i contributes when every request that failed is left out
\* and every other response is processed as in a failure-free run
ExpectedRows(i) ==
    LET h == hist[i]
    IN  IF h.subs_failed THEN <<>>
        ELSE Concat([k \in DOMAIN h.fetched |->
                       IF h.fetched[k].resp.kind # "ok" THEN <<>>
                       ELSE RowsOf(variant, students.list[i], h.fetched[k]).rows])

RowsOfStudent(rows, i) ==
    SelectSeq(rows, LAMBDA r : r.student_id = students.list[i].id)

\* C6: a transport failure of a submissions or events request never ends the
\* run, and in a finished run the collection holds, for every student, the
\* rows of exactly the requests that did not fail: a student whose
\* submissions fetch failed contributes nothing, a submission whose events
\* fetch failed contributes nothing, every other submission the API served
\* was fetched and contributes the rows of its response.
C6_FailureRemovesOnlyItsContribution ==
    /\ Crashed => \E i \in DOMAIN hist : \E k \in DOMAIN hist[i].fetched :
                     /\ hist[i].fetched[k].resp.kind = "ok"
                     /\ RowsOf(variant, students.list[i], hist[i].fetched[k]).raised
    /\ (Finished /\ ~students.none) =>
          /\ \A i \in DOMAIN hist :
                /\ RowsOfStudent(all_events, i) = ExpectedRows(i)
                /\ ~hist[i].subs_failed =>
                      [k \in DOMAIN hist[i].fetched |-> hist[i].fetched[k].submission_id]
                      = SubmissionIdsOf(hist[i].served)
          /\ Len(all_events) = Len(Concat([i \in DOMAIN hist |-> ExpectedRows(i)]))
          /\ variant = "seq" => all_events = Concat([i \in DOMAIN hist |-> ExpectedRows(i)])

\* Witness of C6: a finished run of two students in which the first
\* student's submissions fetch failed, one events fetch of the second failed,
\* and the second student still contributed rows
C6_Witness ==
    /\ Finished /\ Len(students.list) = 2
    /\ hist[1].subs_failed
    /\ ~hist[2].subs_failed /\ Len(hist[2].fetched) = 2
    /\ hist[2].fetched[1].resp.kind # "ok"
    /\ RowsOfStudent(all_events, 2) # <<>>
    /\ csv.written

\* C7: once the enrollment fetch has failed with HTTP 401, no submissions or
\* events request is ever issued, no task is submitted to the pool, and no
\* CSV file is written.
C7_Enrollment401Aborts ==
    enroll_failure = <<HttpError(401)>> =>
        /\ issued = {"enrollments"}
        /\ task = <<>> /\ hist = <<>>
        /\ all_events = <<>>
        /\ csv = NoFile
        /\ pc \in {"enroll", "pool", "done"}

\* Witness of C7: the sequential run has ended after a 401 on the second
\* enrollment page
C7_Witness ==
    /\ enroll_failure = <<HttpError(401)>>
    /\ variant = "seq" /\ pc = "done" /\ students.none

\* What the event fetcher of a pipeline hands its caller for a response
ReturnedEvents(v, resp) ==
    IF v = "seq" THEN chk_fetch_canvas_action_log(resp)
    ELSE Some(opt_fetch_canvas_action_log(resp))

\* C9: for a response whose event key is present and empty the event fetcher
\* returns an empty sequence, and what it returns for a failed request
\* differs from that, so the caller can tell the two apart.
C9_EmptyDistinctFromFailure ==
    \A i \in DOMAIN hist : \A k \in DOMAIN hist[i].fetched :
        LET resp == hist[i].fetched[k].resp
        IN  /\ (resp.kind = "ok" /\ resp.has_key /\ resp.events = <<>>)
                  => ReturnedEvents(variant, resp) = Some(<<>>)
            /\ resp.kind # "ok"
                  => ReturnedEvents(variant, resp) # ReturnedEvents(variant, OkEvents(TRUE, <<>>))

----------------------------------------------------------------------------
(* skip_duplicates on its own: any list of up to MaxSeqLen consolidated    *)
(* rows of two submissions.                                                *)

Ann == [id |-> 1, name |-> "Ann"]
E3  == Event("page_view", Iso(9, 0, 0), "hi", "u1", Absent)
DedupRows ==
    {chk_consolidated_row(Ann, submission_id, event).row :
        submission_id \in {11, 12}, event \in {E1, E2, E3}}

InitDedup ==
    /\ variant = "dedup"
    /\ pc = "input"
    /\ fin \in SeqsUpTo(DedupRows, MaxSeqLen)
    /\ fout = <<>>
    /\ call = IdleCall /\ students = None /\ si = 0 /\ subs = None /\ sj = 0
    /\ all_events = <<>> /\ csv = NoFile /\ task = <<>>
    /\ issued = {} /\ hist = <<>> /\ enroll_failure = <<>>

apply_skip_duplicates ==
    /\ variant = "dedup" /\ pc = "input"
    /\ fout' = skip_duplicates(fin)
    /\ pc' = "output"
    /\ UNCHANGED <<variant, students, si, subs, sj, all_events, csv, task, call,
                   issued, hist, enroll_failure, fin>>

\* skip_duplicates applied to its own output
apply_skip_duplicates_again ==
    /\ variant = "dedup" /\ pc = "output"
    /\ fout' = skip_duplicates(fout)
    /\ pc' = "output_again"
    /\ UNCHANGED <<variant, students, si, subs, sj, all_events, csv, task, call,
                   issued, hist, enroll_failure, fin>>

(* sana.py process_student_submissions: duplicates are dropped inside the  *)
(* loop over one submission's events, with a `seen` set created anew in    *)
(* every iteration of `for sub in submissions:` and a key without the      *)
(* submission id.  An iteration is [id, events]: the id of the submission  *)
(* and the normalized records of its events, sorted as the code sorts.     *)

sana_event_key(event) ==
    <<event.timestamp_hh_mm, event.action_description, event.raw_event_type>>

\* `for event in events:` of one iteration, from `seen = set()`
RECURSIVE sana_dedup_loop(_, _, _)
sana_dedup_loop(events, seen, kept) ==
    IF events = <<>> THEN kept
    ELSE LET event == Head(events)
         IN  IF sana_event_key(event) \in seen
             THEN sana_dedup_loop(Tail(events), seen, kept)
             ELSE sana_dedup_loop(Tail(events), seen \cup {sana_event_key(event)},
                                  Append(kept, event))

\* `for sub in submissions:`, every iteration with a `seen` of its own; the
\* lines kept, in processing order
sana_dedup(submissions) ==
    Concat([k \in DOMAIN submissions |->
              IF submissions[k].id = NoId THEN <<>>
              ELSE sana_dedup_loop(submissions[k].events, {}, <<>>)])

\* The ways the records of a run can have come from the iterations of
\* `for sub in submissions:`: consecutive records of one submission id are
\* one iteration or several (the API may list a submission twice)
RECURSIVE IterationsOf(_)
IterationsOf(rows) ==
    IF rows = <<>> THEN {<<>>}
    ELSE UNION {
           {<<[id |-> rows[1].submission_id, events |-> SubSeq(rows, 1, n)]>> \o rest :
               rest \in IterationsOf(SubSeq(rows, n + 1, Len(rows)))} :
           n \in {m \in 1..Len(rows) :
                    \A k \in 1..m : rows[k].submission_id = rows[1].submission_id}}

\* The per-submission policy of sana.py applied to the same records, for
\* one way of their having come from the loop's iterations
apply_sana_dedup ==
    /\ variant = "dedup" /\ pc = "input"
    /\ \E submissions \in IterationsOf(fin) :
          /\ subs' = Some(submissions)
          /\ fout' = sana_dedup(submissions)
    /\ pc' = "output_sana"
    /\ UNCHANGED <<variant, students, si, sj, all_events, csv, task, call,
                   issued, hist, enroll_failure, fin>>

NextDedup ==
    \/ apply_skip_duplicates
    \/ apply_skip_duplicates_again
    \/ apply_sana_dedup

SpecDedup == InitDedup /\ [][NextDedup]_vars

\* The positions of the first occurrence of each identity key
FirstIdx(X) ==
    {i \in DOMAIN X : \A j \in 1..(i - 1) : event_key(X[j]) # event_key(X[i])}

\* The elements of X at the positions idx, in the order of X
AtPositions(X, idx) ==
    LET nth(k) == CHOOSE i \in idx : Cardinality({j \in idx : j < i}) = k - 1
    IN  [k \in 1..Cardinality(idx) |-> X[nth(k)]]

\* C10: the output of skip_duplicates is the input restricted to the first
\* occurrence of each identity key, in input order; each survivor is the
\* first-seen record itself, url included.
C10_DedupKeepsFirstOccurrences ==
    pc = "output" => fout = AtPositions(fin, FirstIdx(fin))

\* Witness of C10: two records with one key and different urls, the second
\* dropped, and another record after them kept
C10_Witness ==
    /\ pc = "output" /\ Len(fin) = 3 /\ Len(fout) = 2
    /\ event_key(fin[1]) = event_key(fin[2]) /\ fin[1].url # fin[2].url
    /\ fout[1].url = fin[1].url /\ fout[2] = fin[3]

\* C11: skip_duplicates is idempotent: applied to its own output it returns
\* that output unchanged.
C11_DedupIdempotent ==
    [][(pc = "output" /\ pc' = "output_again") => fout' = fout]_vars

\* Witness of C11: the second pass has run on the output of a first pass that
\* dropped a duplicate and kept two records
C11_Witness ==
    /\ pc = "output_again" /\ Len(fin) = 3 /\ Len(fout) = 2
    /\ \E i, j \in DOMAIN fin : i < j /\ event_key(fin[i]) = event_key(fin[j])

----------------------------------------------------------------------------
(* One submission from events response to exported rows: a run with one    *)
(* student and one submission, whose events request is answered with any   *)
(* list of up to MaxSeqLen distinct events.                                *)

SubEvents ==
    {Event("session_started", Iso(10, 0, 0), Absent, "a", Absent),
     Event("page_view", Iso(9, 0, 0), "hi", "b", Absent),
     Event("session_started", Iso(10, 0, 0), Absent, "c", Absent),
     Event("window_focused", Iso(10, 30, 2), Absent, "d", Absent),
     Event("custom_weird_event", AbsentTs, "hi", "f", Absent),
     Event("question_answered", NullTs, Absent, "g", "7"),
     Event(Absent, TextTs, Absent, "h", Absent),
     Event("window_blurred", TextTs, Absent, "i", Absent),
     Event("page_view", EmptyTs, Absent, "j", Absent),
     Event("question_answered", Iso(9, 30, 0), Absent, "k", "7")}

InitSub ==
    /\ variant \in {"sub_seq", "sub_opt"}
    /\ pc = "input"
    /\ fin \in {events \in SeqsUpTo(SubEvents, MaxSeqLen) :
                  \A i, j \in DOMAIN events : i # j => events[i] # events[j]}
    /\ fout = <<>>
    /\ call = IdleCall /\ students = None /\ si = 0 /\ subs = None /\ sj = 0
    /\ all_events = <<>> /\ csv = NoFile /\ task = <<>>
    /\ issued = {} /\ hist = <<>> /\ enroll_failure = <<>>

\* checker.py: the `if events:` block, then skip_duplicates before the save.
\* optimized.py: the rows of the task, extended into all_events and saved.
export_one_submission ==
    /\ variant \in {"sub_seq", "sub_opt"} /\ pc = "input"
    /\ LET done == IF variant = "sub_seq"
                   THEN chk_process_events(Ann, 11, Some(fin))
                   ELSE opt_process_events(Ann, 11, fin)
       IN  /\ pc' = IF done.raised THEN "raised" ELSE "output"
           /\ fout' = IF done.raised THEN <<>>
                      ELSE IF variant = "sub_seq" THEN skip_duplicates(done.rows)
                      ELSE done.rows
    /\ UNCHANGED <<variant, students, si, subs, sj, all_events, csv, task, call,
                   issued, hist, enroll_failure, fin>>

NextSub == export_one_submission

SpecSub == InitSub /\ [][NextSub]_vars

\* The event a row was made from (the urls of SubEvents are distinct), and
\* its position in the response
EventOfRow(row) == CHOOSE e \in Range(fin) : e.url = row.url
FetchPos(row)   == CHOOSE i \in DOMAIN fin : fin[i].url = row.url
Parsed(row)     == fromisoformat(get_created_at(EventOfRow(row))).res = "ok"

\* C4: the exported rows of a submission are in non-decreasing order of the
\* instant their created_at parses to, rows of equal instant in the order
\* the events were fetched.
C4_RowsChronological ==
    pc = "output" =>
        \A i, j \in DOMAIN fout :
            (i < j /\ Parsed(fout[i]) /\ Parsed(fout[j])) =>
                LET a == Instant(EventOfRow(fout[i]).created_at)
                    b == Instant(EventOfRow(fout[j]).created_at)
                IN  a < b \/ (a = b /\ FetchPos(fout[i]) < FetchPos(fout[j]))

----------------------------------------------------------------------------
(* Further properties of the pipelines (Spec) *)

\* C12: a run that fetched a non-empty roster without an enrollment failure
\* and ran to its end has written the CSV file, whether or not any event was
\* collected.
C12_CompletedRunExports ==
    (Finished /\ enroll_failure = <<>> /\ Truthy(students)) => csv.written

----------------------------------------------------------------------------
(* The pipelines against a server that may leave a request unanswered.     *)
(* No requests.get / session.get call passes timeout=, and requests waits  *)
(* without limit then: the call never returns and never raises.            *)

\* checker.py: the request of the page loop in progress, or of
\* fetch_canvas_action_log for the current submission, is never answered
chk_request_unanswered ==
    /\ variant = "seq"
    /\ \/ /\ pc \in {"enroll", "subs"} /\ call.status = "running"
          /\ issued' = issued \cup {call.fn}
          /\ call' = [call EXCEPT !.status = "blocked",
                                  !.requests = Append(@, RequestParams(call))]
       \/ /\ pc = "submission" /\ subs.list[sj].id # NoId
          /\ issued' = issued \cup {"events"}
          /\ UNCHANGED call
    /\ pc' = "blocked"
    /\ UNCHANGED <<variant, students, si, subs, sj, all_events, csv, task,
                   hist, enroll_failure, fin, fout>>

\* optimized.py: the enrollments request of __main__ is never answered
opt_enrollments_unanswered ==
    /\ variant = "opt" /\ pc = "enroll"
    /\ issued' = issued \cup {"enrollments"}
    /\ pc' = "blocked"
    /\ UNCHANGED <<variant, students, si, subs, sj, all_events, csv, task, call,
                   hist, enroll_failure, fin, fout>>

\* optimized.py: the submissions request or an events request of task i is
\* never answered; the task keeps its worker and its future never completes
opt_task_request_unanswered(i) ==
    /\ variant = "opt" /\ pc \in {"pool", "unwinding"}
    /\ task[i].st = "running" /\ task[i].requesting
    /\ task' = [task EXCEPT ![i].st = "blocked"]
    /\ UNCHANGED <<variant, pc, students, si, subs, sj, all_events, csv, call,
                   issued, hist, enroll_failure, fin, fout>>

NextHang ==
    \/ Next
    \/ chk_request_unanswered
    \/ opt_enrollments_unanswered
    \/ \E i \in DOMAIN task : opt_task_request_unanswered(i)

\* The program takes its next step whenever it has one
SpecHang == Init /\ [][NextHang]_vars /\ WF_vars(NextHang)

\* C13: every run eventually terminates (normally or with a traceback), also
\* when a request is never answered.
C13_RunTerminates == <>(pc \in {"done", "crashed"})

----------------------------------------------------------------------------
(* Further properties of one submission's normalisation (SpecSub) *)

\* The events of the response all carry an event_type
AllTagged == \A i \in DOMAIN fin : fin[i].event_type # Absent

\* C14: a response whose events all carry an event_type is normalised
\* without an exception whatever their created_at is, and every event whose
\* created_at is absent, empty, null or unparsable gives a row with
\* timestamp "N/A".
C14_BadTimestampGivesNA ==
    (pc # "input" /\ AllTagged) =>
        /\ pc = "output"
        /\ variant = "sub_opt" => Len(fout) = Len(fin)
        /\ \A k \in DOMAIN fout :
              ~Parsed(fout[k]) => fout[k].timestamp_hh_mm = "N/A"

\* The tags the description rules name
KnownTags ==
    {"session_started", "question_answered", "window_blurred", "window_focused",
     "page_view"}

\* The label C15 states for an unrecognized tag: underscores replaced by
\* spaces, first letter capitalized, then ": <description>" if there is one
FallbackLabel(tag, description) ==
    LET cs    == Spell(tag)
        label == JoinStr([i \in DOMAIN cs |->
                            IF cs[i] = "_" THEN " "
                            ELSE IF i = 1 THEN upper(cs[i]) ELSE cs[i]])
    IN  IF description # "" THEN label \o ": " \o description ELSE label

\* C15: a response none of whose events has a null created_at is normalised
\* without an exception whatever the events' tags are, an absent tag
\* included, and every row of an unrecognized tag carries the fallback label.
C15_UnknownTagNeverFails ==
    (pc # "input" /\ \A i \in DOMAIN fin : fin[i].created_at # NullTs) =>
        /\ pc = "output"
        /\ \A k \in DOMAIN fout :
              fout[k].raw_event_type \notin (KnownTags \cup {"N/A"}) =>
                  fout[k].action_description =
                      FallbackLabel(fout[k].raw_event_type, fout[k].raw_description)

\* C16: in both pipelines the row of a question_answered event carries the
\* phrase with the question id of the event's data, so the sequential and
\* the concurrent normalizer agree on it.
C16_AnswerEmbedsQuestionId ==
    pc = "output" =>
        \A k \in DOMAIN fout :
            fout[k].raw_event_type = "question_answered" =>
                /\ fout[k].action_description =
                      "Answered question:#" \o get(EventOfRow(fout[k]), "question_id", "N/A")
                /\ fout[k].action_description =
                      chk_format_event_description(EventOfRow(fout[k])).text
                /\ fout[k].action_description =
                      opt_format_event_description(EventOfRow(fout[k])).text

----------------------------------------------------------------------------
(* optimized.py with more students than workers: the enrollments response  *)
(* lists PoolStudents students, the first two students have one or two     *)
(* submissions and the others one, and every events request is answered    *)
(* with one event.                                                         *)

PoolStudents == PoolSize + 1

PoolEnrollmentResponses ==
    {OkPage([id \in 1..PoolStudents |->
                Enrollment("StudentEnrollment", TRUE, id, StudentName(id))],
            NoLinkHeader)}

PoolSubmissionsResponses(user_id) ==
    {OkPage([k \in 1..n |-> Submission(10 * user_id + k)], NoLinkHeader) :
        n \in IF user_id <= 2 THEN 1..MaxSubs ELSE {1}}

PoolEventsResponses == {OkEvents(TRUE, <<E1>>)}

InitPool == Init /\ variant = "opt"

\* No response of this API makes a task raise, so opt_unwound has no part
NextPool ==
    \/ opt_fetch_enrollments_on(PoolEnrollmentResponses)
    \/ \E i \in DOMAIN task : opt_task_start(i)
    \/ \E i \in DOMAIN task :
          opt_task_fetch_submissions_on(i, PoolSubmissionsResponses(students.list[i].id))
    \/ \E i \in DOMAIN task : opt_task_request_events(i)
    \/ \E i \in DOMAIN task : opt_task_process_submission_on(i, PoolEventsResponses)
    \/ \E i \in DOMAIN task : opt_collect(i)
    \/ opt_save

SpecPool == InitPool /\ [][NextPool]_vars

\* The submission ids of the events requests task i has made, in order
FetchedIds(i) == [k \in DOMAIN hist[i].fetched |-> hist[i].fetched[k].submission_id]

\* C17: at most PoolSize = 5 tasks hold a worker, each of them inside at most
\* one request; a task requests the events of its student's submissions one
\* after another in the order the submissions were fetched; and every
\* events request of a task is for a submission of that task's student.
C17_PoolBoundsConcurrency ==
    /\ PoolSize = 5
    /\ Cardinality(Running) <= PoolSize
    /\ \A i \in DOMAIN task :
          LET ids == SubmissionIdsOf(task[i].subs)
          IN  /\ Len(FetchedIds(i)) <= Len(ids)
              /\ FetchedIds(i) = SubSeq(ids, 1, Len(FetchedIds(i)))
              /\ task[i].st = "running" =>
                    FetchedIds(i) = SubmissionIdsOf(SubSeq(task[i].subs, 1, task[i].j - 1))
              /\ \A k \in DOMAIN FetchedIds(i) :
                    /\ FetchedIds(i)[k] \in SubmissionIds(students.list[i].id)
                    /\ \A o \in DOMAIN task :
                          o # i => FetchedIds(i)[k] \notin Range(SubmissionIdsOf(task[o].subs))

\* Witness of C17: all five workers are busy, a sixth task waits in the
\* queue, and one task is at its second submission
C17_Witness ==
    /\ Cardinality(Running) = PoolSize
    /\ \E i \in DOMAIN task : task[i].st = "queued"
    /\ \E i \in DOMAIN task : task[i].st = "running" /\ task[i].j = 2

----------------------------------------------------------------------------
(* Further properties of the concurrent pipeline (Spec) *)

\* The orders in which the tasks can have been collected
CollectionOrders ==
    {o \in [DOMAIN task -> DOMAIN task] : \A i, j \in DOMAIN task : i # j => o[i] # o[j]}

\* C18: in optimized.py the collection changes only in the collecting step,
\* which appends the complete list of one task not collected before; and
\* once the pool has drained and the program has left it, the collection
\* is the concatenation, in some order of the tasks, of the lists of all the
\* tasks that returned one.
C18_CollectionIsMergeOfTaskLists ==
    [][variant = "opt" =>
        /\ all_events' # all_events =>
              \E i \in DOMAIN task :
                  /\ ~task[i].collected /\ task'[i].collected
                  /\ \A j \in DOMAIN task : j # i => task'[j] = task[j]
                  /\ all_events' = all_events \o task[i].results
        /\ (pc' \in {"done", "crashed"} /\ pc \notin {"done", "crashed"}) =>
              \E o \in CollectionOrders :
                  all_events' = Concat([k \in DOMAIN task |->
                                          IF task'[o[k]].st = "finished"
                                          THEN task'[o[k]].results ELSE <<>>])
      ]_vars

----------------------------------------------------------------------------
(* One call of an enrollments or submissions fetcher of either pipeline    *)
(* against any API within the bounds: the page loop of checker.py          *)
(* (variant "page") or the single request of optimized.py ("page_opt").    *)

InitFetch ==
    /\ variant \in {"page", "page_opt"}
    /\ pc = "call"
    /\ call \in {NewCall("enrollments", 0)}
                \cup {NewCall("submissions", id) : id \in StudentIds}
    /\ students = None /\ si = 0 /\ subs = None /\ sj = 0
    /\ all_events = <<>> /\ csv = NoFile /\ task = <<>>
    /\ issued = {} /\ hist = <<>> /\ enroll_failure = <<>>
    /\ fin = <<>> /\ fout = <<>>

\* optimized.py fetch_course_enrollments / fetch_quiz_submissions_for_user:
\* session.get with per_page and no page parameter (page 0 in the log), and
\* the return of what that one response gives
opt_single_request ==
    /\ variant = "page_opt" /\ call.status = "running"
    /\ \E resp \in PageResponses(call) :
          LET result == IF call.fn = "enrollments"
                        THEN opt_fetch_course_enrollments(resp)
                        ELSE opt_fetch_quiz_submissions_for_user(resp)
          IN  /\ call' = Return([call EXCEPT
                                   !.requests = <<[RequestParams(call) EXCEPT !.page = 0]>>,
                                   !.served = <<resp>>,
                                   !.acc = result],
                                Some(result))
              /\ enroll_failure' = IF call.fn = "enrollments" /\ resp.kind # "ok"
                                   THEN <<resp>> ELSE enroll_failure
    /\ issued' = issued \cup {call.fn}
    /\ UNCHANGED <<variant, pc, students, si, subs, sj, all_events, csv, task,
                   hist, fin, fout>>

NextFetch ==
    \/ variant = "page" /\ chk_page_request
    \/ opt_single_request

SpecFetch == InitFetch /\ [][NextFetch]_vars

\* C19: a fetcher whose requests all succeeded returns only after a page
\* that is empty or has no "next" link, and returns the items of every page
\* it was served; it never returns while the API announces a further page.
C19_FetchersFollowPagination ==
    (call.status = "returned" /\ AllOk(call.served)) =>
        /\ ~Continues(call.served[Len(call.served)])
        /\ call.result.list =
              IF variant = "page"
              THEN ItemsOfPages(call.fn, NonEmptyPages(call.served))
              ELSE Concat([k \in DOMAIN call.served |->
                             IF call.fn = "enrollments"
                             THEN opt_students_of(call.served[k].items)
                             ELSE call.served[k].items])

\* C20: after a failed request the fetcher issues no further request, has
\* returned, and returns None, which no successful fetch returns.
C20_FailureEndsFetchAndIsReported ==
    \A k \in DOMAIN call.served :
        call.served[k].kind # "ok" =>
            /\ k = Len(call.served) /\ Len(call.requests) = k
            /\ call.status = "returned"
            /\ call.result = None

----------------------------------------------------------------------------
(* What __main__ prints about the enrollments it fetched *)

FailedToRetrieve ==
    "Failed to retrieve any student information for the specified course. Exiting."

\* checker.py: `if not all_students_info:` print(...) else print(f"Found ...")
chk_enrollment_report(all_students_info) ==
    IF ~Truthy(all_students_info) THEN FailedToRetrieve
    ELSE "Found " \o ToString(Len(all_students_info.list)) \o " students in course"

\* optimized.py: print(f"Found {len(students)} students.")
opt_enrollment_report(student_list) ==
    "Found " \o ToString(Len(student_list)) \o " students."

EnrollmentReport ==
    IF variant = "seq" THEN chk_enrollment_report(students)
    ELSE opt_enrollment_report(students.list)

\* C21: a finished run whose enrollment fetch succeeded and gave no student
\* has collected nothing, has not crashed on the way, and has not reported
\* the outcome as a failure to retrieve the students.
C21_NoStudentsIsNotAFailure ==
    (Finished /\ enroll_failure = <<>> /\ students.list = <<>>) =>
        /\ all_events = <<>> /\ csv.rows = <<>>
        /\ EnrollmentReport # FailedToRetrieve

----------------------------------------------------------------------------
(* Further properties of the pipelines (Spec): students and their rows *)

\* Student i's submissions fetch has returned, without a failure, a list
\* with no submission in it
ZeroSubmissions(i) ==
    /\ ~hist[i].subs_failed /\ hist[i].served = <<>>
    /\ IF variant = "seq" THEN si > i \/ (si = i /\ pc \notin {"enroll", "subs"})
       ELSE task[i].j >= 1

\* C22: a student whose submissions fetch returned nothing has no row in the
\* collection or in the export, made no events request and raised nothing;
\* and in a finished run every other student's rows are those of that
\* student's own responses.
C22_ZeroSubmissionsContributeNothing ==
    \A i \in DOMAIN hist :
        ZeroSubmissions(i) =>
            /\ RowsOfStudent(all_events, i) = <<>>
            /\ RowsOfStudent(csv.rows, i) = <<>>
            /\ hist[i].fetched = <<>>
            /\ variant = "opt" => task[i].st = "finished" /\ task[i].results = <<>>
            /\ Finished =>
                  \A o \in DOMAIN hist :
                      o # i => RowsOfStudent(all_events, o) = ExpectedRows(o)

\* Witness of C22: a finished run in which the first student had no
\* submission and the second student's rows were exported
C22_Witness ==
    /\ Finished /\ Len(students.list) = 2
    /\ ZeroSubmissions(1)
    /\ RowsOfStudent(csv.rows, 2) # <<>>

\* The user ids of the enrollments of another role the API can serve
NonStudentIds ==
    {e.user_id : e \in {x \in EnrollItems : x.role # "StudentEnrollment"}}

\* C23: the students a pipeline processes are enrollments of the student
\* role: checker.py's fetcher returns exactly the student enrollments of the
\* pages it was served, in order, and no student processed, no submissions
\* request and no row collected or exported carries a non-student's id.
C23_OnlyStudentRoleProcessed ==
    /\ \A k \in DOMAIN students.list : students.list[k].id \notin NonStudentIds
    /\ \A k \in DOMAIN all_events : all_events[k].student_id \notin NonStudentIds
    /\ \A k \in DOMAIN csv.rows : csv.rows[k].student_id \notin NonStudentIds
    /\ call.fn = "submissions" => call.user_id \notin NonStudentIds
    /\ (call.fn = "enrollments" /\ call.status = "returned" /\ ~call.result.none) =>
          [k \in DOMAIN call.result.list |-> call.result.list[k].id]
          = Concat([k \in DOMAIN call.served |-> StudentIdsOf(call.served[k].items)])

\* Witness of C23: the enrollments fetch has returned one student from a
\* page that also held a teacher's enrollment
C23_Witness ==
    /\ call.fn = "enrollments" /\ call.status = "returned"
    /\ Len(call.served) >= 1
    /\ \E k \in DOMAIN call.served[1].items :
          call.served[1].items[k].role = "TeacherEnrollment"
    /\ \E k \in DOMAIN call.served[1].items :
          call.served[1].items[k].role = "StudentEnrollment"
    /\ ~call.result.none /\ Len(call.result.list) = 1

\* The normalized records of student i before deduplication: the student's
\* rows of all_consolidated_events (checker.py), the task's results
\* (optimized.py)
RecordsOf(i) ==
    IF variant = "seq" THEN RowsOfStudent(all_events, i) ELSE task[i].results

\* The raw events an events response delivered
EventsOf(resp) == IF resp.kind = "ok" THEN resp.events ELSE <<>>

\* C24: for every events request made for a submission of student i, the
\* student's records hold exactly one record per raw event of the response,
\* each with the submission's id and the student's id and name; and every
\* record of the student belongs to such a request.
C24_RecordsMatchRawEvents ==
    \A i \in DOMAIN hist :
        /\ \A k \in DOMAIN hist[i].fetched :
              LET f    == hist[i].fetched[k]
                  rows == SelectSeq(RecordsOf(i),
                                    LAMBDA r : r.submission_id = f.submission_id)
              IN  /\ Len(rows) = Len(EventsOf(f.resp))
                  /\ \A n \in DOMAIN rows :
                        /\ rows[n].student_id = students.list[i].id
                        /\ rows[n].student_name = students.list[i].name
                        /\ rows[n].url = get(EventsOf(f.resp)[n], "url", "")
        /\ \A n \in DOMAIN RecordsOf(i) :
              \E k \in DOMAIN hist[i].fetched :
                  hist[i].fetched[k].submission_id = RecordsOf(i)[n].submission_id

----------------------------------------------------------------------------
(* The two deduplication policies compared (SpecDedup) *)

\* Each submission id is processed once: no two iterations of the loop over
\* the submissions have the same id
ProcessedOnce(submissions) ==
    \A a, b \in DOMAIN submissions :
        a # b => submissions[a].id # submissions[b].id

\* C25: on the records of a run in which each submission id is processed
\* once, dropping duplicates per submission with the key (timestamp_hh_mm,
\* action_description, raw_event_type) keeps the same records in the same
\* order as skip_duplicates over the whole run.
C25_DedupPoliciesAgree ==
    (pc = "output_sana" /\ ProcessedOnce(subs.list)) => fout = skip_duplicates(fin)

\* Witness of C25: two submissions with the same event, the first of them
\* with a duplicate of it; the duplicate is dropped, the other two are kept
C25_Witness ==
    /\ pc = "output_sana" /\ ProcessedOnce(subs.list)
    /\ Len(subs.list) = 2 /\ Len(fin) = 3 /\ Len(fout) = 2
    /\ Len(subs.list[1].events) = 2
    /\ sana_event_key(fin[1]) = sana_event_key(fin[2])
    /\ sana_event_key(fin[1]) = sana_event_key(fin[3])

----------------------------------------------------------------------------
(* Paginated fetches of the sequential pipeline are all-or-nothing (Spec) *)

\* C26: in the sequential pipeline a paginated fetch that has returned
\* returns the items of all its pages when every request succeeded and None
\* when one failed, whatever the pages before it delivered; a student whose
\* submissions fetch failed has no events fetched and no row; and after a
\* failed enrollment page no student is processed, no other request is
\* issued and no file is written.
C26_PaginatedFetchAllOrNothing ==
    variant = "seq" =>
        /\ call.status = "returned" =>
              call.result = IF AllOk(call.served)
                            THEN Some(ItemsOfPages(call.fn, NonEmptyPages(call.served)))
                            ELSE None
        /\ \A i \in DOMAIN hist :
              hist[i].subs_failed =>
                  /\ hist[i].fetched = <<>>
                  /\ RowsOfStudent(all_events, i) = <<>>
        /\ enroll_failure # <<>> =>
              /\ pc \in {"enroll", "done"}
              /\ pc = "done" => students = None
              /\ hist = <<>> /\ issued = {"enrollments"}
              /\ all_events = <<>> /\ csv = NoFile

\* Witness of C26: the enrollment fetch has returned None after a first page
\* that delivered students and a second page that failed
C26_Witness ==
    /\ variant = "seq" /\ pc = "enroll"
    /\ call.fn = "enrollments" /\ call.status = "returned"
    /\ Len(call.served) = 2
    /\ chk_students_of(call.served[1].items) # <<>>
    /\ call.served[2].kind # "ok"
    /\ call.acc # <<>>
    /\ call.result = None

=============================================================================
